---- MODULE Spec2Model ----
(***************************************************************************)
(* Consumption / balance transaction pipeline of the SPOG inventory        *)
(* application: recordConsumption (src/lib/db/consumption.ts), the item    *)
(* store (src/lib/db/inventory.ts), the activity log                       *)
(* (src/lib/db/activity.ts) and the balance adjustment handler             *)
(* (src/components/consumption-modal.tsx).                                 *)
(*                                                                         *)
(* JavaScript numbers are modelled as exact rationals [n, d] (d > 0, in    *)
(* lowest terms) or the marker NaN; rounding of IEEE doubles is not        *)
(* modelled.                                                               *)
(***************************************************************************)
EXTENDS Integers, Sequences, FiniteSets, TLC

----------------------------------------------------------------------------
(* Numbers *)

\* the result of an undefined numeric operation; d = 0 marks it
NaN == [n |-> 0, d |-> 0]

Abs(x) == IF x < 0 THEN -x ELSE x

RECURSIVE GCD(_, _)
GCD(a, b) == IF b = 0 THEN a ELSE GCD(b, a % b)

\* the rational n/d in lowest terms with a positive denominator
Rat(n, d) ==
  LET s == IF d < 0 THEN -1 ELSE 1
      g == GCD(Abs(n), Abs(d))
  IN  [n |-> (s * n) \div g, d |-> (s * d) \div g]

Int2Num(k) == [n |-> k, d |-> 1]

IsNaN(x) == x.d = 0

\* x - y
Sub(x, y) ==
  IF IsNaN(x) \/ IsNaN(y) THEN NaN
  ELSE Rat(x.n * y.d - y.n * x.d, x.d * y.d)

\* x * y, cancelling across before multiplying
Mul(x, y) ==
  IF IsNaN(x) \/ IsNaN(y) THEN NaN
  ELSE LET g1 == GCD(Abs(x.n), y.d)
           g2 == GCD(Abs(y.n), x.d)
       IN  Rat((x.n \div g1) * (y.n \div g2), (x.d \div g2) * (y.d \div g1))

\* x / y for y # 0
Div(x, y) ==
  IF IsNaN(x) \/ IsNaN(y) THEN NaN
  ELSE Mul(x, Rat(y.d, y.n))

\* x < y; every comparison with NaN is false
Lt(x, y) ==
  IF IsNaN(x) \/ IsNaN(y) THEN FALSE
  ELSE x.n * y.d < y.n * x.d

\* x <= y
Le(x, y) ==
  IF IsNaN(x) \/ IsNaN(y) THEN FALSE
  ELSE x.n * y.d <= y.n * x.d

\* Number.prototype.toFixed(2): x rounded to two decimals (half away from zero)
ToFixed2(x) ==
  IF IsNaN(x) THEN NaN
  ELSE LET a == Abs(x.n) * 100
           q == (2 * a + x.d) \div (2 * x.d)
       IN  Rat(IF x.n < 0 THEN -q ELSE q, 100)

----------------------------------------------------------------------------
(* Unit conversion: the if-chain of recordConsumption.  The area units     *)
(* cm², m², in², ft² are spelled cm2, m2, in2, ft2.                        *)

\* String.prototype.toLowerCase on the unit spellings that occur
ToLower(u) == IF u = "L" THEN "l" ELSE IF u = "ML" THEN "ml" ELSE u

ConversionRules == {
    [from |-> "ml", to |-> "l", op |-> "div", k |-> Rat(1000, 1)],
    [from |-> "l", to |-> "ml", op |-> "mul", k |-> Rat(1000, 1)],
    [from |-> "cl", to |-> "l", op |-> "div", k |-> Rat(100, 1)],
    [from |-> "l", to |-> "cl", op |-> "mul", k |-> Rat(100, 1)],
    [from |-> "ml", to |-> "cl", op |-> "div", k |-> Rat(10, 1)],
    [from |-> "cl", to |-> "ml", op |-> "mul", k |-> Rat(10, 1)],
    [from |-> "fl_oz", to |-> "gal", op |-> "div", k |-> Rat(128, 1)],
    [from |-> "gal", to |-> "fl_oz", op |-> "mul", k |-> Rat(128, 1)],
    [from |-> "pt", to |-> "gal", op |-> "div", k |-> Rat(8, 1)],
    [from |-> "gal", to |-> "pt", op |-> "mul", k |-> Rat(8, 1)],
    [from |-> "qt", to |-> "gal", op |-> "div", k |-> Rat(4, 1)],
    [from |-> "gal", to |-> "qt", op |-> "mul", k |-> Rat(4, 1)],
    [from |-> "fl_oz", to |-> "pt", op |-> "div", k |-> Rat(16, 1)],
    [from |-> "pt", to |-> "fl_oz", op |-> "mul", k |-> Rat(16, 1)],
    [from |-> "fl_oz", to |-> "qt", op |-> "div", k |-> Rat(32, 1)],
    [from |-> "qt", to |-> "fl_oz", op |-> "mul", k |-> Rat(32, 1)],
    [from |-> "pt", to |-> "qt", op |-> "div", k |-> Rat(2, 1)],
    [from |-> "qt", to |-> "pt", op |-> "mul", k |-> Rat(2, 1)],
    [from |-> "ml", to |-> "fl_oz", op |-> "div", k |-> Rat(29574, 1000)],
    [from |-> "fl_oz", to |-> "ml", op |-> "mul", k |-> Rat(29574, 1000)],
    [from |-> "l", to |-> "gal", op |-> "div", k |-> Rat(378541, 100000)],
    [from |-> "gal", to |-> "l", op |-> "mul", k |-> Rat(378541, 100000)],
    [from |-> "g", to |-> "kg", op |-> "div", k |-> Rat(1000, 1)],
    [from |-> "kg", to |-> "g", op |-> "mul", k |-> Rat(1000, 1)],
    [from |-> "mg", to |-> "g", op |-> "div", k |-> Rat(1000, 1)],
    [from |-> "g", to |-> "mg", op |-> "mul", k |-> Rat(1000, 1)],
    [from |-> "oz_wt", to |-> "lb", op |-> "div", k |-> Rat(16, 1)],
    [from |-> "lb", to |-> "oz_wt", op |-> "mul", k |-> Rat(16, 1)],
    [from |-> "g", to |-> "oz_wt", op |-> "div", k |-> Rat(283495, 10000)],
    [from |-> "oz_wt", to |-> "g", op |-> "mul", k |-> Rat(283495, 10000)],
    [from |-> "kg", to |-> "lb", op |-> "mul", k |-> Rat(220462, 100000)],
    [from |-> "lb", to |-> "kg", op |-> "div", k |-> Rat(220462, 100000)],
    [from |-> "oz_wt", to |-> "kg", op |-> "mul", k |-> Rat(283495, 10000000)],
    [from |-> "kg", to |-> "oz_wt", op |-> "div", k |-> Rat(283495, 10000000)],
    [from |-> "mm", to |-> "cm", op |-> "div", k |-> Rat(10, 1)],
    [from |-> "cm", to |-> "mm", op |-> "mul", k |-> Rat(10, 1)],
    [from |-> "cm", to |-> "m", op |-> "div", k |-> Rat(100, 1)],
    [from |-> "m", to |-> "cm", op |-> "mul", k |-> Rat(100, 1)],
    [from |-> "mm", to |-> "m", op |-> "div", k |-> Rat(1000, 1)],
    [from |-> "m", to |-> "mm", op |-> "mul", k |-> Rat(1000, 1)],
    [from |-> "in", to |-> "ft", op |-> "div", k |-> Rat(12, 1)],
    [from |-> "ft", to |-> "in", op |-> "mul", k |-> Rat(12, 1)],
    [from |-> "ft", to |-> "yd", op |-> "div", k |-> Rat(3, 1)],
    [from |-> "yd", to |-> "ft", op |-> "mul", k |-> Rat(3, 1)],
    [from |-> "in", to |-> "yd", op |-> "div", k |-> Rat(36, 1)],
    [from |-> "yd", to |-> "in", op |-> "mul", k |-> Rat(36, 1)],
    [from |-> "cm", to |-> "in", op |-> "div", k |-> Rat(254, 100)],
    [from |-> "in", to |-> "cm", op |-> "mul", k |-> Rat(254, 100)],
    [from |-> "m", to |-> "ft", op |-> "mul", k |-> Rat(328084, 100000)],
    [from |-> "ft", to |-> "m", op |-> "div", k |-> Rat(328084, 100000)],
    [from |-> "mm", to |-> "in", op |-> "div", k |-> Rat(254, 10)],
    [from |-> "in", to |-> "mm", op |-> "mul", k |-> Rat(254, 10)],
    [from |-> "m", to |-> "yd", op |-> "mul", k |-> Rat(109361, 100000)],
    [from |-> "yd", to |-> "m", op |-> "div", k |-> Rat(109361, 100000)],
    [from |-> "cm2", to |-> "m2", op |-> "div", k |-> Rat(10000, 1)],
    [from |-> "m2", to |-> "cm2", op |-> "mul", k |-> Rat(10000, 1)],
    [from |-> "in2", to |-> "ft2", op |-> "div", k |-> Rat(144, 1)],
    [from |-> "ft2", to |-> "in2", op |-> "mul", k |-> Rat(144, 1)],
    [from |-> "cm2", to |-> "in2", op |-> "div", k |-> Rat(64516, 10000)],
    [from |-> "in2", to |-> "cm2", op |-> "mul", k |-> Rat(64516, 10000)],
    [from |-> "m2", to |-> "ft2", op |-> "mul", k |-> Rat(107639, 10000)],
    [from |-> "ft2", to |-> "m2", op |-> "div", k |-> Rat(107639, 10000)],
    [from |-> "pcs", to |-> "dozen", op |-> "div", k |-> Rat(12, 1)],
    [from |-> "dozen", to |-> "pcs", op |-> "mul", k |-> Rat(12, 1)],
    [from |-> "pcs", to |-> "box", op |-> "div", k |-> Rat(24, 1)],
    [from |-> "box", to |-> "pcs", op |-> "mul", k |-> Rat(24, 1)],
    [from |-> "pcs", to |-> "pack", op |-> "div", k |-> Rat(6, 1)],
    [from |-> "pack", to |-> "pcs", op |-> "mul", k |-> Rat(6, 1)],
    [from |-> "dozen", to |-> "box", op |-> "div", k |-> Rat(2, 1)],
    [from |-> "box", to |-> "dozen", op |-> "mul", k |-> Rat(2, 1)] }

\* the amount used as entered, the conversion left out
ConvertAmount_Unconverted(amount, consumption_unit, unit) == amount

\* a conversion that divides where the rule multiplies
ConvertAmount_DivOnly(amount, consumption_unit, unit) ==
  IF consumption_unit # "" /\ unit # "" /\ consumption_unit # unit
  THEN LET fromUnit == ToLower(consumption_unit)
           toUnit   == ToLower(unit)
           rs       == {r \in ConversionRules : r.from = fromUnit /\ r.to = toUnit}
       IN  IF rs = {} THEN amount
           ELSE LET r == CHOOSE r \in rs : TRUE
                IN  Div(amount, r.k)
  ELSE amount

\* a conversion that gives no number when no rule matches
ConvertAmount_NoFallback(amount, consumption_unit, unit) ==
  IF consumption_unit # "" /\ unit # "" /\ consumption_unit # unit
  THEN LET fromUnit == ToLower(consumption_unit)
           toUnit   == ToLower(unit)
           rs       == {r \in ConversionRules : r.from = fromUnit /\ r.to = toUnit}
       IN  IF rs = {} THEN NaN
           ELSE LET r == CHOOSE r \in rs : TRUE
                IN  IF r.op = "div" THEN Div(amount, r.k) ELSE Mul(amount, r.k)
  ELSE amount

\* lines 26-298: convertedAmount as computed from amount and the item's units;
\* an empty string stands for a missing (falsy) unit
ConvertAmount(amount, consumption_unit, unit) ==
  IF consumption_unit # "" /\ unit # "" /\ consumption_unit # unit
  THEN LET fromUnit == ToLower(consumption_unit)
           toUnit   == ToLower(unit)
           rs       == {r \in ConversionRules : r.from = fromUnit /\ r.to = toUnit}
       IN  IF rs = {} THEN amount
           ELSE LET r == CHOOSE r \in rs : TRUE
                IN  IF r.op = "div" THEN Div(amount, r.k) ELSE Mul(amount, r.k)
  ELSE amount

\* lines 30 and 290-298: whether console.warn('Unsupported unit conversion')
\* runs; it is the else branch of the test of line 30
UnsupportedWarning(consumption_unit, unit) ==
  /\ ~(consumption_unit # "" /\ unit # "" /\ consumption_unit # unit)
  /\ consumption_unit # unit

----------------------------------------------------------------------------
(* Bounds and the small sets the inputs are drawn from *)

\* sessions that record consumption; the user id of a session is its name
Procs == {"u1", "u2"}

\* number of recordConsumption calls the sessions may start altogether
MaxCalls == 2

\* number of balance adjustments the admin session may submit
MaxAdjust == 1

\* rows of inventory_items
ItemIds == {"i1", "i2"}

\* an id that resolves to no row
GoneId == "gone"

\* the consumption forms submitted: the item of the modal and the value typed
\* into its "Amount Used" field
Requests == {<<"i1", Int2Num(60)>>, <<"i1", Int2Num(150)>>,
             <<"i2", Int2Num(4000)>>, <<"i2", Int2Num(6000)>>,
             <<GoneId, Int2Num(60)>>}

\* what is typed into the "Amount Used" field of the modal of item i1 when
\* the sign of the amount is of interest; the button is disabled while the
\* field is empty, which is also what a number input holds for a text that
\* is no number
SignedAmountTexts == {"60", "0", "-50"}

\* what a session types into the "Reason" field
ReasonOf(p) == IF p = "u1" THEN "" ELSE "Repair"

\* the adjustment forms submitted: the item of the modal and the value typed
\* into its "New Balance" field
AdjustRequests == {<<"i1", Int2Num(70)>>, <<"i1", Int2Num(-5)>>}

\* how a datastore call can end: a row, an error result, a raised exception
Outcomes == {"ok", "error", "throw"}

----------------------------------------------------------------------------
(* State *)

VARIABLES
  items,            \* table inventory_items: id -> row
  ledger,           \* table consumption_records, in insertion order
  activity,         \* table activity_logs, in insertion order
  pc,               \* per session: the await recordConsumption is suspended at
  calls,            \* recordConsumption calls started
  req,              \* per session: arguments itemId, amount, reason
  item,             \* per session: local `item` (the fetched row)
  convertedAmount,  \* per session: local `convertedAmount`
  newBalance,       \* per session: local `newBalance`
  updatedItem,      \* per session: local `updatedItem`
  result,           \* per session: value returned by the last call
  compensation,     \* per session: what the compensating update resolved to
  adjusts,          \* adjustment submissions so far
  adjustUi,         \* adjustment form: what the last submission showed
  session,          \* useSession() of the page with the modal: "none" or a role
  modal,            \* the ConsumptionModal of that page: mounted, open, isAdmin, tab
  warned,           \* per session: 'Unsupported unit conversion' was written by the call
  trip,             \* a conversion applied forth and back: arguments and results
  listing,          \* a read of the item store: statuses, low-stock and critical-stock lists
  addItemModal,     \* the AddItemModal: formData, validationErrors, last toast, inserts issued
  newItems          \* rows of inventory_items inserted by createInventoryItem, in order

vars == <<items, ledger, activity, pc, calls, req, item, convertedAmount,
          newBalance, updatedItem, result, compensation, adjusts, adjustUi,
          session, modal, warned, trip, listing, addItemModal, newItems>>

\* null / undefined
Null == [null |-> TRUE]

Zero == Int2Num(0)

\* the status with < in place of <=
calculateItemStatus_Strict(row) ==
  IF Lt(row.current_balance, row.critical_threshold) THEN "critical"
  ELSE IF Lt(row.current_balance, row.min_threshold) THEN "low"
  ELSE "normal"

\* lines 253-274 of inventory.ts
calculateItemStatus(row) ==
  IF Le(row.current_balance, row.critical_threshold) THEN "critical"
  ELSE IF Le(row.current_balance, row.min_threshold) THEN "low"
  ELSE "normal"

\* the row with its computed status, as every item-store read returns it
WithStatus(row) ==
  [id |-> row.id,
   current_balance |-> row.current_balance,
   original_amount |-> row.original_amount,
   unit |-> row.unit,
   consumption_unit |-> row.consumption_unit,
   min_threshold |-> row.min_threshold,
   critical_threshold |-> row.critical_threshold,
   status |-> calculateItemStatus(row)]

\* a select without the filter on id: some row of the table comes back
getInventoryItemById_AnyRow(id, outcome) ==
  IF outcome = "ok" THEN WithStatus(items[CHOOSE i \in DOMAIN items : TRUE]) ELSE Null

\* getInventoryItemById: the row with status, or null when the select fails
getInventoryItemById(id, outcome) ==
  IF outcome = "ok" /\ id \in DOMAIN items THEN WithStatus(items[id]) ELSE Null

\* inventory.ts 185-214: ids of the rows getLowStockItems returns; [] when
\* the select fails or raises
getLowStockItems(table, outcome) ==
  IF outcome = "ok"
  THEN {i \in DOMAIN table : WithStatus(table[i]).status = "low"}
  ELSE {}

\* inventory.ts 219-248: ids of the rows getCriticalStockItems returns
getCriticalStockItems(table, outcome) ==
  IF outcome = "ok"
  THEN {i \in DOMAIN table : WithStatus(table[i]).status = "critical"}
  ELSE {}

\* the rows the model starts from
InitItems ==
  [i \in ItemIds |->
     IF i = "i1"
     THEN [id |-> i, current_balance |-> Int2Num(100), original_amount |-> Int2Num(100),
           unit |-> "ml", consumption_unit |-> "ml",
           min_threshold |-> Int2Num(20), critical_threshold |-> Int2Num(10)]
     ELSE [id |-> i, current_balance |-> Int2Num(5), original_amount |-> Int2Num(5),
           unit |-> "L", consumption_unit |-> "ml",
           min_threshold |-> Int2Num(1), critical_threshold |-> Zero]]

\* rows whose units have no conversion rule: i1 is kept in kg and consumed in
\* ml, i2 has an empty consumption_unit
MixItems ==
  [i \in ItemIds |->
     IF i = "i1"
     THEN [InitItems[i] EXCEPT !.unit = "kg"]
     ELSE [InitItems[i] EXCEPT !.consumption_unit = ""]]

\* add-item-modal.tsx 22-75: the units of each category (the squared units
\* are spelled with a 2)
UnitCategories ==
  { {"ml", "cl", "l", "fl_oz", "pt", "qt", "gal"},
    {"mg", "g", "kg", "oz_wt", "lb"},
    {"mm", "cm", "m", "in", "ft", "yd"},
    {"cm2", "m2", "in2", "ft2"},
    {"pcs", "dozen", "box", "pack", "set"} }

\* amounts converted forth and back
TripAmounts == {Int2Num(1), Int2Num(7), Rat(5, 2)}

\* the conversions tried: an amount and two units of one category
Trips ==
  { [step |-> 0, amount |-> x, A |-> a, B |-> b, forth |-> Zero, back |-> Zero] :
      x \in TripAmounts, a \in UNION UnitCategories,
      b \in UNION UnitCategories }

SameCategory(a, b) == \E c \in UnitCategories : a \in c /\ b \in c

\* balances around the thresholds
StatusBalances == {249, 250, 251, 499, 500, 501}

\* tables whose rows lie around their thresholds: i1 with critical threshold
\* 250 and low-stock threshold 500, i2 with the same or the swapped thresholds
StatusTables ==
  { [i \in ItemIds |->
       IF i = "i1"
       THEN [InitItems[i] EXCEPT !.current_balance = Int2Num(b1),
                                 !.critical_threshold = Int2Num(250),
                                 !.min_threshold = Int2Num(500)]
       ELSE [InitItems[i] EXCEPT !.current_balance = Int2Num(b2),
                                 !.critical_threshold = Int2Num(t[1]),
                                 !.min_threshold = Int2Num(t[2])]] :
      b1 \in StatusBalances, b2 \in {250, 300, 501},
      t \in {<<250, 500>>, <<500, 250>>} }

\* `reason || null`; the null reason is spelled "<null>"
ReasonOrNull(reason) == IF reason = "" THEN "<null>" ELSE reason

NoRequest == [itemId |-> GoneId, amount |-> Zero, reason |-> ""]

\* the adjustment form before any submission; afterwards the toast (title,
\* item and amount) or the error message (title only) of the last submission
NoAdjustUi == [title |-> "", itemId |-> GoneId, amount |-> Zero]

\* roles a signed-in session carries (users.role)
Roles == {"admin", "user"}

\* the modal before an item was first clicked
NoModal == [mounted |-> FALSE, open |-> FALSE, isAdmin |-> FALSE, tab |-> "consume"]

\* no conversion was tried
NoTrip == [step |-> 0, amount |-> Zero, A |-> "", B |-> "", forth |-> Zero, back |-> Zero]

\* no read of the item store was made
NoListing == [read |-> FALSE, status |-> [i \in ItemIds |-> ""], low |-> {}, critical |-> {}]

\* add-item-modal.tsx 104-116 and 212-226: the empty form.  The optional free
\* texts category and description are left out.
NoFormData ==
  [item_code |-> "", name |-> "", location_id |-> "", unit |-> "",
   consumption_unit |-> "", original_amount |-> "", current_balance |-> "",
   min_threshold |-> "", critical_threshold |-> ""]

\* the add-item dialog with nothing entered and nothing submitted
NoAddItemModal ==
  [formData |-> NoFormData, validationErrors |-> {}, toast |-> "", creates |-> 0]

\* the texts a number field or a computed threshold can hold, with the number
\* parseFloat reads from them; every other text, the empty one included, is
\* read as NaN
Numerals ==
  { <<"100", 100>>, <<"1e2", 100>>, <<"0", 0>>, <<"-5", -5>>, <<"50", 50>>,
    <<"20", 20>>, <<"10", 10>>, <<"5", 5>>, <<"-1", -1>>, <<"60", 60>>,
    <<"-50", -50>> }

\* parseFloat(text)
ParseFloat(text) ==
  IF \E e \in Numerals : e[1] = text
  THEN Int2Num((CHOOSE e \in Numerals : e[1] = text)[2])
  ELSE NaN

\* Math.floor(x)
Floor(x) == IF IsNaN(x) THEN NaN ELSE Int2Num(x.n \div x.d)

\* x.toString() for the whole numbers and NaN
NumberToString(x) == IF IsNaN(x) THEN "NaN" ELSE ToString(x.n)

NoResult == [success |-> FALSE, message |-> [text |-> ""], updatedItem |-> Null]

Init ==
  /\ items = InitItems
  /\ ledger = <<>>
  /\ activity = <<>>
  /\ pc = [p \in Procs |-> "idle"]
  /\ calls = 0
  /\ req = [p \in Procs |-> NoRequest]
  /\ item = [p \in Procs |-> Null]
  /\ convertedAmount = [p \in Procs |-> Zero]
  /\ newBalance = [p \in Procs |-> Zero]
  /\ updatedItem = [p \in Procs |-> Null]
  /\ result = [p \in Procs |-> NoResult]
  /\ compensation = [p \in Procs |-> "none"]
  /\ adjusts = 0
  /\ adjustUi = NoAdjustUi
  /\ session = "none"
  /\ modal = NoModal
  /\ warned = [p \in Procs |-> FALSE]
  /\ trip = NoTrip
  /\ listing = NoListing
  /\ addItemModal = NoAddItemModal
  /\ newItems = <<>>

----------------------------------------------------------------------------
(* recordConsumption, one action per await *)

Failure(text) == [success |-> FALSE, message |-> [text |-> text], updatedItem |-> Null]

\* a catch block that passes the exception on: the caller gets no result value
UnexpectedError_Rethrown == NoResult

\* lines 387-390: what the catch block returns
UnexpectedError == Failure("An unexpected error occurred")

\* the balance check with its operands swapped
InsufficientBalance_Swapped(it, conv) == Lt(conv, it.current_balance)

\* the balance check rejecting only an empty stock
InsufficientBalance_EmptyOnly(it, conv) == Le(it.current_balance, Zero)

\* line 301: the balance check
InsufficientBalance(it, conv) == Lt(it.current_balance, conv)

\* line 318
NewBalance(it, conv) == Sub(it.current_balance, conv)

\* line 312: the message of a rejected consumption
NotEnoughBalance(it, amount, conv) ==
  [text |-> "Not enough balance",
   available |-> it.current_balance,
   unit |-> it.unit,
   need |-> ToFixed2(conv),
   requested |-> amount,
   consumption_unit |-> it.consumption_unit]

\* an update without the filter on id: every row gets the balance
updateInventoryItem_NoFilter(id, balance) ==
  [i \in DOMAIN items |-> [items[i] EXCEPT !.current_balance = balance]]

\* inventory.ts 123-141 as called with the patch {current_balance: balance}:
\* the table after a successful update of row id
updateInventoryItem(id, balance) ==
  [items EXCEPT ![id].current_balance = balance]

\* consumption-modal.tsx 65-76: recordConsumption(item.id, session.user.id,
\* numAmount, reason) is invoked by session p
CallWith(p, itemId, numAmount) ==
  /\ pc[p] \in {"idle", "done"}
  /\ calls < MaxCalls
  /\ req' = [req EXCEPT ![p] = [itemId |-> itemId, amount |-> numAmount,
                                reason |-> ReasonOf(p)]]
  /\ calls' = calls + 1
  /\ pc' = [pc EXCEPT ![p] = "fetch"]
  /\ item' = [item EXCEPT ![p] = Null]
  /\ convertedAmount' = [convertedAmount EXCEPT ![p] = Zero]
  /\ newBalance' = [newBalance EXCEPT ![p] = Zero]
  /\ updatedItem' = [updatedItem EXCEPT ![p] = Null]
  /\ result' = [result EXCEPT ![p] = NoResult]
  /\ compensation' = [compensation EXCEPT ![p] = "none"]
  /\ UNCHANGED <<items, ledger, activity, adjusts, adjustUi>>
  /\ warned' = [warned EXCEPT ![p] = FALSE]
  /\ UNCHANGED <<session, modal, trip, listing, addItemModal, newItems>>

\* a session invokes recordConsumption(itemId, userId, amount, reason)
Call(p) == \E r \in Requests : CallWith(p, r[1], r[2])

\* lines 16-326: fetch the item, convert, check the balance
FetchItem(p) ==
  /\ pc[p] = "fetch"
  /\ \E o \in Outcomes :
       LET it   == getInventoryItemById(req[p].itemId, o)
           conv == ConvertAmount(req[p].amount, it.consumption_unit, it.unit)
       IN  IF o = "throw"
           THEN /\ result' = [result EXCEPT ![p] = UnexpectedError]
                /\ pc' = [pc EXCEPT ![p] = "done"]
                /\ UNCHANGED <<item, convertedAmount, newBalance, warned>>
           ELSE IF it = Null
           THEN /\ result' = [result EXCEPT ![p] = Failure("Item not found")]
                /\ pc' = [pc EXCEPT ![p] = "done"]
                /\ UNCHANGED <<item, convertedAmount, newBalance, warned>>
           ELSE IF InsufficientBalance(it, conv)
           THEN /\ result' = [result EXCEPT ![p] =
                                [success |-> FALSE,
                                 message |-> NotEnoughBalance(it, req[p].amount, conv),
                                 updatedItem |-> Null]]
                /\ pc' = [pc EXCEPT ![p] = "done"]
                /\ item' = [item EXCEPT ![p] = it]
                /\ convertedAmount' = [convertedAmount EXCEPT ![p] = conv]
                /\ warned' = [warned EXCEPT ![p] = UnsupportedWarning(it.consumption_unit, it.unit)]
                /\ UNCHANGED newBalance
           ELSE /\ item' = [item EXCEPT ![p] = it]
                /\ convertedAmount' = [convertedAmount EXCEPT ![p] = conv]
                /\ warned' = [warned EXCEPT ![p] = UnsupportedWarning(it.consumption_unit, it.unit)]
                /\ newBalance' = [newBalance EXCEPT ![p] = NewBalance(it, conv)]
                /\ pc' = [pc EXCEPT ![p] = "update"]
                /\ UNCHANGED result
  /\ UNCHANGED <<items, ledger, activity, calls, req, updatedItem, compensation,
                 adjusts, adjustUi>>
  /\ UNCHANGED <<session, modal, trip, listing, addItemModal, newItems>>

\* the balance update without the early return on a failed update
UpdateBalance_NoAbort(p) ==
  /\ pc[p] = "update"
  /\ \E o \in Outcomes :
       IF o = "ok" /\ req[p].itemId \in DOMAIN items
       THEN /\ items' = updateInventoryItem(req[p].itemId, newBalance[p])
            /\ updatedItem' = [updatedItem EXCEPT ![p] = WithStatus(items'[req[p].itemId])]
            /\ pc' = [pc EXCEPT ![p] = "insert"]
            /\ UNCHANGED result
       ELSE IF o = "throw"
       THEN /\ result' = [result EXCEPT ![p] = UnexpectedError]
            /\ pc' = [pc EXCEPT ![p] = "done"]
            /\ UNCHANGED <<items, updatedItem>>
       ELSE /\ pc' = [pc EXCEPT ![p] = "insert"]
            /\ UNCHANGED <<items, updatedItem, result>>
  /\ UNCHANGED <<ledger, activity, calls, req, item, convertedAmount, newBalance,
                 compensation, adjusts, adjustUi>>
  /\ UNCHANGED <<session, modal, warned, trip, listing, addItemModal, newItems>>

\* the balance update put off: the call goes on to the insert without it
UpdateBalance_Deferred(p) ==
  /\ pc[p] = "update"
  /\ pc' = [pc EXCEPT ![p] = "insert"]
  /\ UNCHANGED <<items, updatedItem, result>>
  /\ UNCHANGED <<ledger, activity, calls, req, item, convertedAmount, newBalance,
                 compensation, adjusts, adjustUi>>
  /\ UNCHANGED <<session, modal, warned, trip, listing, addItemModal, newItems>>

\* lines 328-336: write the new balance
UpdateBalance(p) ==
  /\ pc[p] = "update"
  /\ \E o \in Outcomes :
       IF o = "ok" /\ req[p].itemId \in DOMAIN items
       THEN /\ items' = updateInventoryItem(req[p].itemId, newBalance[p])
            /\ updatedItem' = [updatedItem EXCEPT ![p] = WithStatus(items'[req[p].itemId])]
            /\ pc' = [pc EXCEPT ![p] = "insert"]
            /\ UNCHANGED result
       ELSE /\ result' = [result EXCEPT ![p] =
                            IF o = "throw" THEN UnexpectedError
                            ELSE Failure("Failed to update item balance")]
            /\ pc' = [pc EXCEPT ![p] = "done"]
            /\ UNCHANGED <<items, updatedItem>>
  /\ UNCHANGED <<ledger, activity, calls, req, item, convertedAmount, newBalance,
                 compensation, adjusts, adjustUi>>
  /\ UNCHANGED <<session, modal, warned, trip, listing, addItemModal, newItems>>

\* the row carrying the amount that was subtracted from the balance
ConsumptionRecord_Converted(p) ==
  [item_id |-> req[p].itemId,
   user_id |-> p,
   amount  |-> convertedAmount[p],
   reason  |-> ReasonOrNull(req[p].reason)]

\* lines 344-349: the row handed to insert()
ConsumptionRecord(p) ==
  [item_id |-> req[p].itemId,
   user_id |-> p,
   amount  |-> req[p].amount,
   reason  |-> ReasonOrNull(req[p].reason)]

\* an upsert that overwrites the newest row of the table
InsertRow_Upsert(table, row) ==
  IF table = <<>> THEN <<row>> ELSE [table EXCEPT ![Len(table)] = row]

\* lines 342-343, 350: from('consumption_records').insert(row) adds one row
InsertRow(table, row) == Append(table, row)

\* an insert whose error is ignored: the call goes on to the activity log
InsertRecord_ErrorIgnored(p) ==
  /\ pc[p] = "insert"
  /\ \E o \in Outcomes :
       IF o = "ok"
       THEN /\ ledger' = InsertRow(ledger, ConsumptionRecord(p))
            /\ pc' = [pc EXCEPT ![p] = "log"]
            /\ UNCHANGED result
       ELSE IF o = "error"
       THEN /\ pc' = [pc EXCEPT ![p] = "log"]
            /\ UNCHANGED <<ledger, result>>
       ELSE /\ result' = [result EXCEPT ![p] = UnexpectedError]
            /\ pc' = [pc EXCEPT ![p] = "done"]
            /\ UNCHANGED ledger
  /\ UNCHANGED <<items, activity, calls, req, item, convertedAmount, newBalance,
                 updatedItem, compensation, adjusts, adjustUi>>
  /\ UNCHANGED <<session, modal, warned, trip, listing, addItemModal, newItems>>

\* lines 340-353: insert the ConsumptionRecord.  The row's timestamp
\* (new Date() at the time of the insert) is left out: rows are kept in
\* insertion order.
InsertRecord(p) ==
  /\ pc[p] = "insert"
  /\ \E o \in Outcomes :
       IF o = "ok"
       THEN /\ ledger' = InsertRow(ledger, ConsumptionRecord(p))
            /\ pc' = [pc EXCEPT ![p] = "log"]
            /\ UNCHANGED result
       ELSE IF o = "error"
       THEN /\ pc' = [pc EXCEPT ![p] = "revert"]
            /\ UNCHANGED <<ledger, result>>
       ELSE /\ result' = [result EXCEPT ![p] = UnexpectedError]
            /\ pc' = [pc EXCEPT ![p] = "done"]
            /\ UNCHANGED ledger
  /\ UNCHANGED <<items, activity, calls, req, item, convertedAmount, newBalance,
                 updatedItem, compensation, adjusts, adjustUi>>
  /\ UNCHANGED <<session, modal, warned, trip, listing, addItemModal, newItems>>

\* the compensating update writing the decremented balance again
RevertBalance_WritesNewBalance(p) ==
  /\ pc[p] = "revert"
  /\ \E o \in Outcomes :
       /\ IF o = "ok" /\ req[p].itemId \in DOMAIN items
          THEN /\ items' = updateInventoryItem(req[p].itemId, newBalance[p])
               /\ compensation' = [compensation EXCEPT ![p] = "row"]
          ELSE /\ UNCHANGED items
               /\ compensation' = [compensation EXCEPT ![p] =
                                     IF o = "throw" THEN "threw" ELSE "null"]
       /\ result' = [result EXCEPT ![p] =
                       IF o = "throw" THEN UnexpectedError
                       ELSE Failure("Failed to create consumption record")]
  /\ pc' = [pc EXCEPT ![p] = "done"]
  /\ UNCHANGED <<ledger, activity, calls, req, item, convertedAmount, newBalance,
                 updatedItem, adjusts, adjustUi>>
  /\ UNCHANGED <<session, modal, warned, trip, listing, addItemModal, newItems>>

\* lines 353-361: the compensating update after a failed insert
RevertBalance(p) ==
  /\ pc[p] = "revert"
  /\ \E o \in Outcomes :
       /\ IF o = "ok" /\ req[p].itemId \in DOMAIN items
          THEN /\ items' = updateInventoryItem(req[p].itemId, item[p].current_balance)
               /\ compensation' = [compensation EXCEPT ![p] = "row"]
          ELSE /\ UNCHANGED items
               /\ compensation' = [compensation EXCEPT ![p] =
                                     IF o = "throw" THEN "threw" ELSE "null"]
       /\ result' = [result EXCEPT ![p] =
                       IF o = "throw" THEN UnexpectedError
                       ELSE Failure("Failed to create consumption record")]
  /\ pc' = [pc EXCEPT ![p] = "done"]
  /\ UNCHANGED <<ledger, activity, calls, req, item, convertedAmount, newBalance,
                 updatedItem, adjusts, adjustUi>>
  /\ UNCHANGED <<session, modal, warned, trip, listing, addItemModal, newItems>>

\* activity.ts 6-29: the activity_logs table after createActivityLog(log);
\* an insert error or exception is caught there and null is returned
createActivityLog(log, o) ==
  IF o = "ok" THEN Append(activity, log) ELSE activity

\* lines 365-386: write the activity log and return success
LogActivity(p) ==
  /\ pc[p] = "log"
  /\ \E o \in Outcomes :
       activity' = createActivityLog(
                     [user_id |-> p,
                      action_type |-> "consumption",
                      item_id |-> req[p].itemId,
                      details |-> [amount |-> req[p].amount,
                                   unit |-> IF item[p].consumption_unit # ""
                                            THEN item[p].consumption_unit
                                            ELSE item[p].unit,
                                   reason |-> ReasonOrNull(req[p].reason),
                                   previous_balance |-> item[p].current_balance,
                                   new_balance |-> newBalance[p]]], o)
  /\ result' = [result EXCEPT ![p] =
                  [success |-> TRUE,
                   message |-> [text |-> "Consumption recorded successfully"],
                   updatedItem |-> updatedItem[p]]]
  /\ pc' = [pc EXCEPT ![p] = "done"]
  /\ UNCHANGED <<items, ledger, calls, req, item, convertedAmount, newBalance,
                 updatedItem, compensation, adjusts, adjustUi>>
  /\ UNCHANGED <<session, modal, warned, trip, listing, addItemModal, newItems>>

----------------------------------------------------------------------------
(* Balance adjustment: handleAdjustmentSubmit of the consumption modal *)

\* consumption-modal.tsx 130-172: the "Update Balance" button of the adjust
\* tab is clicked; on success the handler closes the dialog
Adjust ==
  /\ modal.open
  /\ modal.tab = "adjust"
  /\ adjusts < MaxAdjust
  /\ adjusts' = adjusts + 1
  /\ IF session = "none"
     THEN /\ adjustUi' = [title |-> "Authentication Error", itemId |-> GoneId,
                          amount |-> Zero]
          /\ UNCHANGED <<items, modal>>
     ELSE \E r \in AdjustRequests, o \in Outcomes :
            LET id        == r[1]
                numAmount == r[2]
            IN  IF o = "ok"
                THEN /\ items' = updateInventoryItem(id, numAmount)
                     /\ adjustUi' = [title |-> "Inventory Updated", itemId |-> id,
                                     amount |-> numAmount]
                     /\ modal' = [modal EXCEPT !.open = FALSE, !.tab = "consume"]
                ELSE /\ UNCHANGED <<items, modal>>
                     /\ adjustUi' = [title |-> IF o = "throw"
                                               THEN "An unexpected error occurred"
                                               ELSE "Failed to update inventory. Please try again.",
                                     itemId |-> GoneId, amount |-> Zero]
  /\ UNCHANGED <<ledger, activity, pc, calls, req, item, convertedAmount,
                 newBalance, updatedItem, result, compensation, session,
                 warned, trip, listing, addItemModal, newItems>>

----------------------------------------------------------------------------
(* The page around the modal: session and dialog state *)

coreVars == <<items, ledger, activity, pc, calls, req, item, convertedAmount,
              newBalance, updatedItem, result, compensation, adjusts, adjustUi,
              warned, trip, listing, addItemModal, newItems>>

\* useSession() resolves after the page was rendered
SessionLoaded ==
  /\ session = "none"
  /\ session' \in Roles
  /\ UNCHANGED <<coreVars, modal>>

\* the session of the browser changes while the page stays mounted (sign-out
\* or sign-in as another user in another tab; next-auth refetches the session)
SessionSwitch ==
  /\ session # "none"
  /\ session' \in (Roles \cup {"none"}) \ {session}
  /\ UNCHANGED <<coreVars, modal>>

\* dashboard/page.tsx 97-100, 374-380 and consumption-modal.tsx 46-53: an item
\* is clicked; the first render of the modal fixes isAdmin.  The dialog is
\* opened only while an adjustment can still be submitted (MaxAdjust).
OpenModal ==
  /\ ~modal.open
  /\ adjusts < MaxAdjust
  /\ modal' = [mounted |-> TRUE,
               open    |-> TRUE,
               isAdmin |-> IF modal.mounted THEN modal.isAdmin ELSE session = "admin",
               tab     |-> "consume"]
  /\ UNCHANGED <<coreVars, session>>

\* Cancel / onOpenChange: the dialog closes, the component stays mounted
CloseModal ==
  /\ modal.open
  /\ modal' = [modal EXCEPT !.open = FALSE, !.tab = "consume"]
  /\ UNCHANGED <<coreVars, session>>

\* consumption-modal.tsx 184-190: a tab trigger is clicked; the adjust trigger
\* is disabled unless isAdmin
SelectTab(t) ==
  /\ modal.open
  /\ modal.tab # t
  /\ t = "adjust" => modal.isAdmin
  /\ modal' = [modal EXCEPT !.tab = t]
  /\ UNCHANGED <<coreVars, session>>

----------------------------------------------------------------------------
(* Specifications *)

\* request handlers interleave at their awaits
Next ==
  \/ \E p \in Procs : Call(p)
  \/ \E p \in Procs : FetchItem(p)
  \/ \E p \in Procs : UpdateBalance(p)
  \/ \E p \in Procs : InsertRecord(p)
  \/ \E p \in Procs : RevertBalance(p)
  \/ \E p \in Procs : LogActivity(p)
  \/ Adjust
  \/ SessionLoaded
  \/ OpenModal
  \/ SelectTab("adjust")

Spec == Init /\ [][Next]_vars

\* no transaction is in flight
Quiescent == \A q \in Procs : pc[q] \in {"idle", "done"}

SeqCall(p) == Quiescent /\ Call(p)

SeqAdjust == Quiescent /\ Adjust

\* the calls run one after another
SeqNext ==
  \/ \E p \in Procs : SeqCall(p)
  \/ \E p \in Procs : FetchItem(p)
  \/ \E p \in Procs : UpdateBalance(p)
  \/ \E p \in Procs : InsertRecord(p)
  \/ \E p \in Procs : RevertBalance(p)
  \/ \E p \in Procs : LogActivity(p)
  \/ SeqAdjust
  \/ SessionLoaded
  \/ OpenModal
  \/ SelectTab("adjust")

SeqSpec == Init /\ [][SeqNext]_vars

\* consumption-modal.tsx 55-76: handleConsumptionSubmit of the modal of item
\* i1 with the text of the amount field
FormCall(p) ==
  /\ Quiescent
  /\ \E text \in SignedAmountTexts : CallWith(p, "i1", ParseFloat(text))

\* the calls run one after another and take their amount from the form
FormNext ==
  \/ \E p \in Procs : FormCall(p)
  \/ \E p \in Procs : FetchItem(p)
  \/ \E p \in Procs : UpdateBalance(p)
  \/ \E p \in Procs : InsertRecord(p)
  \/ \E p \in Procs : RevertBalance(p)
  \/ \E p \in Procs : LogActivity(p)

FormSpec == Init /\ [][FormNext]_vars

\* the page's session may change while the modal is mounted
UiNext ==
  \/ Next
  \/ SessionSwitch
  \/ CloseModal
  \/ SelectTab("consume")

UiSpec == Init /\ [][UiNext]_vars

\* the store holds the rows without a conversion rule
MixInit ==
  /\ items = MixItems
  /\ ledger = <<>>
  /\ activity = <<>>
  /\ pc = [p \in Procs |-> "idle"]
  /\ calls = 0
  /\ req = [p \in Procs |-> NoRequest]
  /\ item = [p \in Procs |-> Null]
  /\ convertedAmount = [p \in Procs |-> Zero]
  /\ newBalance = [p \in Procs |-> Zero]
  /\ updatedItem = [p \in Procs |-> Null]
  /\ result = [p \in Procs |-> NoResult]
  /\ compensation = [p \in Procs |-> "none"]
  /\ adjusts = 0
  /\ adjustUi = NoAdjustUi
  /\ session = "none"
  /\ modal = NoModal
  /\ warned = [p \in Procs |-> FALSE]
  /\ trip = NoTrip
  /\ listing = NoListing
  /\ addItemModal = NoAddItemModal
  /\ newItems = <<>>

MixSpec == MixInit /\ [][Next]_vars

----------------------------------------------------------------------------
(* The conversion rules and the status classification on their own *)

\* the amount is converted from unit A to unit B
ConvertForth ==
  /\ trip.step = 0
  /\ trip' = [trip EXCEPT !.step = 1,
                          !.forth = ConvertAmount(trip.amount, trip.A, trip.B)]
  /\ UNCHANGED <<items, ledger, activity, pc, calls, req, item, convertedAmount,
                 newBalance, updatedItem, result, compensation, adjusts, adjustUi,
                 session, modal, warned, listing, addItemModal, newItems>>

\* the result is converted from unit B to unit A
ConvertBack ==
  /\ trip.step = 1
  /\ trip' = [trip EXCEPT !.step = 2,
                          !.back = ConvertAmount(trip.forth, trip.B, trip.A)]
  /\ UNCHANGED <<items, ledger, activity, pc, calls, req, item, convertedAmount,
                 newBalance, updatedItem, result, compensation, adjusts, adjustUi,
                 session, modal, warned, listing, addItemModal, newItems>>

\* the dashboard reads the store: every row's status and the two listings
ReadStore ==
  /\ ~listing.read
  /\ \E oLow \in Outcomes, oCritical \in Outcomes :
       listing' = [read     |-> TRUE,
                   status   |-> [i \in ItemIds |-> WithStatus(items[i]).status],
                   low      |-> getLowStockItems(items, oLow),
                   critical |-> getCriticalStockItems(items, oCritical)]
  /\ UNCHANGED <<items, ledger, activity, pc, calls, req, item, convertedAmount,
                 newBalance, updatedItem, result, compensation, adjusts, adjustUi,
                 session, modal, warned, trip, addItemModal, newItems>>

FnInit ==
  /\ items \in StatusTables
  /\ ledger = <<>>
  /\ activity = <<>>
  /\ pc = [p \in Procs |-> "idle"]
  /\ calls = 0
  /\ req = [p \in Procs |-> NoRequest]
  /\ item = [p \in Procs |-> Null]
  /\ convertedAmount = [p \in Procs |-> Zero]
  /\ newBalance = [p \in Procs |-> Zero]
  /\ updatedItem = [p \in Procs |-> Null]
  /\ result = [p \in Procs |-> NoResult]
  /\ compensation = [p \in Procs |-> "none"]
  /\ adjusts = 0
  /\ adjustUi = NoAdjustUi
  /\ session = "none"
  /\ modal = NoModal
  /\ warned = [p \in Procs |-> FALSE]
  /\ trip \in {t \in Trips : SameCategory(t.A, t.B)}
  /\ listing = NoListing
  /\ addItemModal = NoAddItemModal
  /\ newItems = <<>>

FnNext ==
  \/ ConvertForth
  \/ ConvertBack
  \/ ReadStore

FnSpec == FnInit /\ [][FnNext]_vars

----------------------------------------------------------------------------
(* The add-item dialog: add-item-modal.tsx *)

\* number of createInventoryItem calls the dialog may issue
MaxCreates == 1

\* what is typed into the text fields and the Current Balance field
FieldTexts ==
  [item_code |-> {"", "SL-1"}, name |-> {"", "Sealant"}, current_balance |-> {"", "50"}]

\* what the Original Amount field is set to
OriginalAmountTexts == {"", "100", "1e2", "0", "-5"}

\* the entries of the selects: one location; two units of one category
SelectOptions ==
  [location_id |-> {"loc1"}, unit |-> {"l"}, consumption_unit |-> {"ml"}]

\* everything but the add-item dialog and the rows it inserted
noAddVars == <<items, ledger, activity, pc, calls, req, item, convertedAmount,
               newBalance, updatedItem, result, compensation, adjusts, adjustUi,
               modal, warned, trip, listing>>

\* lines 155-162 and 169-176: the validation error of a field is cleared when
\* the field gets a value
ClearedErrors(name, value) ==
  IF value # "" /\ name \in addItemModal.validationErrors
  THEN addItemModal.validationErrors \ {name}
  ELSE addItemModal.validationErrors

\* lines 151-163: handleChange of a text field or of Current Balance
handleChange(name, value) ==
  /\ addItemModal.formData[name] # value
  /\ addItemModal' =
       [addItemModal EXCEPT !.formData[name] = value,
                            !.validationErrors = ClearedErrors(name, value)]
  /\ UNCHANGED <<noAddVars, session, newItems>>

\* lines 166-177: handleSelectChange of the location and the two unit selects
handleSelectChange(name, value) ==
  /\ addItemModal.formData[name] # value
  /\ addItemModal' =
       [addItemModal EXCEPT !.formData[name] = value,
                            !.validationErrors = ClearedErrors(name, value)]
  /\ UNCHANGED <<noAddVars, session, newItems>>

\* lines 180-189: calculateThresholds applied to the form
calculateThresholds(formData, originalAmount) ==
  LET amount == ParseFloat(originalAmount)
  IN  IF ~IsNaN(amount)
      THEN [formData EXCEPT
              !.min_threshold = NumberToString(Floor(Mul(amount, Rat(2, 10)))),
              !.critical_threshold = NumberToString(Floor(Mul(amount, Rat(1, 10))))]
      ELSE formData

\* lines 192-209: handleOriginalAmountChange
handleOriginalAmountChange(value) ==
  /\ addItemModal.formData.original_amount # value
  /\ addItemModal' =
       [addItemModal EXCEPT
          !.formData = calculateThresholds(
                         [@ EXCEPT !.original_amount = value,
                                   !.current_balance = value], value),
          !.validationErrors = ClearedErrors("original_amount", value)]
  /\ UNCHANGED <<noAddVars, session, newItems>>

\* lines 514-523: Cancel resets the form and the validation errors
CancelAddItem ==
  /\ addItemModal.formData # NoFormData \/ addItemModal.validationErrors # {}
  /\ addItemModal' = [addItemModal EXCEPT !.formData = NoFormData,
                                          !.validationErrors = {}]
  /\ UNCHANGED <<noAddVars, session, newItems>>

\* line 240
requiredFields == {"item_code", "name", "location_id", "unit", "original_amount"}

\* line 241
missingFields(formData) == {f \in requiredFields : formData[f] = ""}

\* lines 269-276: a numeric field that is not empty is parsed and printed again
Processed(text) == IF text # "" THEN NumberToString(ParseFloat(text)) ELSE text

\* lines 268-281: the row handed to createInventoryItem
processedData(formData) ==
  [formData EXCEPT
     !.original_amount = Processed(@),
     !.current_balance = Processed(@),
     !.min_threshold = Processed(@),
     !.critical_threshold = Processed(@),
     !.consumption_unit = IF @ = "" THEN formData.unit ELSE @]

\* lines 229-310: handleSubmit.  inventory.ts 101-118: createInventoryItem
\* inserts the row as it was handed over, reports an error or raises.
handleSubmit ==
  /\ IF session = "none"
     THEN /\ addItemModal' = [addItemModal EXCEPT !.toast = "Authentication Error"]
          /\ UNCHANGED newItems
     ELSE IF missingFields(addItemModal.formData) # {}
     THEN /\ addItemModal' =
               [addItemModal EXCEPT
                  !.validationErrors = missingFields(addItemModal.formData),
                  !.toast = "Missing Required Fields"]
          /\ UNCHANGED newItems
     ELSE /\ addItemModal.creates < MaxCreates
          /\ \E o \in Outcomes :
               IF o = "ok"
               THEN /\ newItems' = Append(newItems, processedData(addItemModal.formData))
                    /\ addItemModal' = [formData |-> NoFormData,
                                        validationErrors |-> {},
                                        toast |-> "Item Added",
                                        creates |-> addItemModal.creates + 1]
               ELSE /\ UNCHANGED newItems
                    /\ addItemModal' =
                         [addItemModal EXCEPT
                            !.validationErrors = {},
                            !.toast = IF o = "throw"
                                      THEN "An unexpected error occurred"
                                      ELSE "Failed to add inventory item",
                            !.creates = @ + 1]
  /\ UNCHANGED <<noAddVars, session>>

AddNext ==
  \/ SessionLoaded
  \/ \E name \in DOMAIN FieldTexts : \E value \in FieldTexts[name] :
       handleChange(name, value)
  \/ \E name \in DOMAIN SelectOptions : \E value \in SelectOptions[name] :
       handleSelectChange(name, value)
  \/ \E value \in OriginalAmountTexts : handleOriginalAmountChange(value)
  \/ CancelAddItem
  \/ handleSubmit

AddSpec == Init /\ [][AddNext]_vars

----------------------------------------------------------------------------
(* Properties *)

Text(p) == result[p].message.text

Stored(i) == items[i].current_balance

\* C1: when the calls run one after another, no recordConsumption step takes a
\* non-negative balance below zero, and a call whose converted amount exceeds
\* the stored balance returns success=false with the item store unchanged.
C1_NoOverdraw ==
  [][\A p \in Procs :
       /\ adjusts' = adjusts =>
            \A i \in ItemIds :
              ~Lt(Stored(i), Zero) => ~Lt(items'[i].current_balance, Zero)
       /\ ( /\ pc[p] = "fetch"
            /\ pc'[p] # "fetch"
            /\ item'[p] # Null
            /\ Lt(Stored(req[p].itemId), convertedAmount'[p]) )
          => /\ pc'[p] = "done"
             /\ ~result'[p].success
             /\ items' = items]_vars

\* balance 100 ml, consume 150 ml: rejected, balance still 100
C1_Witness ==
  \E p \in Procs :
    /\ pc[p] = "done"
    /\ req[p].itemId = "i1"
    /\ req[p].amount = Int2Num(150)
    /\ item[p] # Null
    /\ item[p].current_balance = Int2Num(100)
    /\ ~result[p].success
    /\ Stored("i1") = Int2Num(100)

\* C2: two concurrent requests of 60 against balance 100 never both return
\* success.
C2_NotBothSucceed ==
  ( /\ calls = 2
    /\ adjusts = 0
    /\ \A p \in Procs :
         /\ pc[p] = "done"
         /\ req[p].itemId = "i1"
         /\ req[p].amount = Int2Num(60) )
  => ~(\A p \in Procs : result[p].success)

\* C3: no two transactions against the same item are between their read of
\* the item and their write of current_balance at the same time.
C3_AtMostOneInFlight ==
  \A p, q \in Procs :
    (p # q /\ pc[p] = "update" /\ pc[q] = "update")
      => req[p].itemId # req[q].itemId

\* C4: when the fetched balance is less than the converted amount the call
\* returns success=false with the insufficient-balance message and writes
\* nothing: item store, ledger and activity log are unchanged.
C4_RejectedWritesNothing ==
  [][\A p \in Procs :
       ( /\ pc[p] = "fetch"
         /\ pc'[p] # "fetch"
         /\ item'[p] # Null
         /\ Lt(item'[p].current_balance, convertedAmount'[p]) )
       => /\ pc'[p] = "done"
          /\ ~result'[p].success
          /\ result'[p].message.text = "Not enough balance"
          /\ result'[p].updatedItem = Null
          /\ UNCHANGED <<items, ledger, activity>>]_vars

C4_Witness ==
  \E p \in Procs :
    /\ pc[p] = "done"
    /\ Text(p) = "Not enough balance"
    /\ req[p].itemId = "i2"
    /\ Lt(item[p].current_balance, convertedAmount[p])
    /\ ledger = <<>>
    /\ activity = <<>>
    /\ items = InitItems

\* C5: for an item stocked in L and consumed in ml the requested amount is
\* divided by 1000 before the balance check, the check compares the balance
\* with that converted amount, and a successful update stores the balance
\* minus the converted amount (5 L: 4000 ml leaves 1, 6000 ml is rejected).
C5_ConvertBeforeCheck ==
  \A p \in Procs :
    ( /\ item[p] # Null
      /\ ToLower(item[p].unit) = "l"
      /\ ToLower(item[p].consumption_unit) = "ml" )
    => LET bal      == item[p].current_balance
           need     == Rat(req[p].amount.n, req[p].amount.d * 1000)
           rejected == pc[p] = "done" /\ Text(p) = "Not enough balance"
       IN  /\ convertedAmount[p] = need
           /\ Lt(bal, need) => rejected
           /\ ~Lt(bal, need) => ~rejected /\ newBalance[p] = Sub(bal, need)
           /\ updatedItem[p] # Null =>
                updatedItem[p].current_balance = Sub(bal, need)
           /\ (bal = Int2Num(5) /\ req[p].amount = Int2Num(4000))
                => newBalance[p] = Int2Num(1) /\ ~rejected
           /\ (bal = Int2Num(5) /\ req[p].amount = Int2Num(6000)) => rejected

\* 5 L in stock, 4000 ml consumed: success, 1 L left
C5_Witness ==
  \E p \in Procs :
    /\ pc[p] = "done"
    /\ result[p].success
    /\ req[p].itemId = "i2"
    /\ req[p].amount = Int2Num(4000)
    /\ item[p].current_balance = Int2Num(5)
    /\ result[p].updatedItem.current_balance = Int2Num(1)
    /\ Stored("i2") = Int2Num(1)

C7_UncompensatedDistinct ==
  \A p, q \in Procs :
    ( /\ pc[p] = "done"
      /\ pc[q] = "done"
      /\ compensation[p] \in {"null", "threw"}
      /\ compensation[q] = "row" )
    => result[p] # result[q]

\* C8: when the balance update fails the call returns success=false and
\* writes neither a ConsumptionRecord nor an ActivityLog entry.
C8_FailedUpdateWritesNothing ==
  /\ [](\A p \in Procs :
          pc[p] \in {"insert", "revert", "log"} => updatedItem[p] # Null)
  /\ [][\A p \in Procs :
          (pc[p] = "update" /\ pc'[p] # "update" /\ updatedItem'[p] = Null)
          => /\ pc'[p] = "done"
             /\ ~result'[p].success
             /\ UNCHANGED <<items, ledger, activity>>]_vars

C8_Witness ==
  \E p \in Procs :
    /\ pc[p] = "done"
    /\ Text(p) = "Failed to update item balance"
    /\ updatedItem[p] = Null
    /\ ledger = <<>>
    /\ activity = <<>>

\* C9: every call that returned success has written an ActivityLog entry of
\* action_type 'consumption' for its item.
C9_SuccessHasActivityLog ==
  \A p \in Procs :
    (pc[p] = "done" /\ result[p].success)
    => \E k \in 1..Len(activity) :
         /\ activity[k].action_type = "consumption"
         /\ activity[k].user_id = p
         /\ activity[k].item_id = req[p].itemId

\* C10: every successful balance adjustment has written an ActivityLog entry
\* with action_type 'adjustment' for the adjusted item.
C10_AdjustmentLogged ==
  adjustUi.title = "Inventory Updated"
  => \E k \in 1..Len(activity) :
       /\ activity[k].action_type = "adjustment"
       /\ activity[k].item_id = adjustUi.itemId

\* C11: the adjustment update is sent only when the session of the page is an
\* admin session: every submission of the adjustment form that gets past the
\* authentication guard is made under the admin role.
C11_AdjustOnlyByAdmin ==
  [][ ( /\ adjusts' # adjusts
        /\ adjustUi'.title # "Authentication Error" )
      => session = "admin" ]_vars

\* C12: every stored balance is non-negative in every reachable state,
\* whatever consumptions and adjustments were applied.
C12_BalanceNonNegative ==
  \A i \in ItemIds : ~Lt(Stored(i), Zero)

\* C13: when the item id resolves to no row, the step that fetches the item
\* ends the call with success = false and 'Item not found' unless the fetch
\* raised, and it writes nothing to the item store, the ledger or the
\* activity log.
C13_NotFoundWritesNothing ==
  [][ \A p \in Procs :
        ( /\ pc[p] = "fetch"
          /\ pc'[p] # "fetch"
          /\ req[p].itemId \notin DOMAIN items
          /\ result'[p] # UnexpectedError )
        => /\ pc'[p] = "done"
           /\ ~result'[p].success
           /\ result'[p].message.text = "Item not found"
           /\ UNCHANGED <<items, ledger, activity>> ]_vars

\* a call for the unknown id has returned 'Item not found'
C13_Witness ==
  \E p \in Procs :
    /\ pc[p] = "done"
    /\ req[p].itemId = GoneId
    /\ ~result[p].success
    /\ Text(p) = "Item not found"
    /\ item[p] = Null

\* the message texts of the values recordConsumption returns
ResultTexts ==
  {"Item not found", "Not enough balance", "Failed to update item balance",
   "Failed to create consumption record", "Consumption recorded successfully",
   "An unexpected error occurred"}

\* how far a call has come
Rank(l) ==
  CASE l = "idle"   -> 0
    [] l = "fetch"  -> 1
    [] l = "update" -> 2
    [] l = "insert" -> 3
    [] l = "revert" -> 4
    [] l = "log"    -> 4
    [] l = "done"   -> 5

\* C14: every call that has ended handed its caller a result value with a
\* boolean success and a message, also when a datastore call raised; and every
\* step of a call brings it nearer to its return, so that it ends after at
\* most five steps.
C14_AlwaysReturnsResult ==
  /\ [] ( \A p \in Procs :
            pc[p] = "done"
            => /\ result[p].success \in BOOLEAN
               /\ Text(p) \in ResultTexts )
  /\ [][ \A p \in Procs :
           pc'[p] # pc[p]
           => \/ pc[p] \in {"idle", "done"} /\ pc'[p] = "fetch"
              \/ pc[p] \notin {"idle", "done"} /\ Rank(pc'[p]) > Rank(pc[p]) ]_vars

\* the insert raised after the balance was written: the catch block's result
C14_Witness ==
  \E p \in Procs :
    /\ pc[p] = "done"
    /\ updatedItem[p] # Null
    /\ compensation[p] = "none"
    /\ result[p] = UnexpectedError

\* C15: the ledger only grows at its end: every step leaves each row written
\* before in place and unchanged, so the ledger of a state extends the ledger
\* of every earlier state.
C15_LedgerAppendOnly ==
  [][ /\ Len(ledger') >= Len(ledger)
      /\ SubSeq(ledger', 1, Len(ledger)) = ledger ]_vars

\* two rows were written, a compensation ran and an adjustment was applied
C15_Witness ==
  /\ Len(ledger) = 2
  /\ ledger[1] # ledger[2]
  /\ adjustUi.title = "Inventory Updated"
  /\ Len(activity) >= 1

\* C16: the row appended by the insert step carries the amount as the caller
\* passed it, not the converted amount.
C16_RecordKeepsRequestedAmount ==
  [][ \A p \in Procs :
        (pc[p] = "insert" /\ pc'[p] = "log")
        => /\ Len(ledger') = Len(ledger) + 1
           /\ ledger'[Len(ledger')].amount = req[p].amount
           /\ ledger'[Len(ledger')].item_id = req[p].itemId
           /\ ledger'[Len(ledger')].user_id = p ]_vars

\* 4000 ml were requested from an item kept in L: 4 was subtracted, the row
\* says 4000
C16_Witness ==
  \E p \in Procs :
    /\ pc[p] = "done"
    /\ result[p].success
    /\ req[p].amount = Int2Num(4000)
    /\ convertedAmount[p] = Int2Num(4)
    /\ \E k \in 1..Len(ledger) :
         /\ ledger[k].user_id = p
         /\ ledger[k].item_id = "i2"
         /\ ledger[k].amount = Int2Num(4000)

\* the units differ and the if-chain of lines 37-285 has no branch for them
NoRule(consumption_unit, unit) ==
  /\ consumption_unit # unit
  /\ ~(/\ consumption_unit # ""
       /\ unit # ""
       /\ \E r \in ConversionRules :
            r.from = ToLower(consumption_unit) /\ r.to = ToLower(unit))

\* C17: when the fetched item's units differ and no conversion rule applies,
\* the call does not abort: the converted amount is the requested amount, the
\* balance check is made with it, and a sufficient balance lets the call go
\* on to the update with the balance less the requested amount.
C17_UnsupportedFallsBack ==
  [][ \A p \in Procs :
        ( /\ pc[p] = "fetch"
          /\ pc'[p] # "fetch"
          /\ item'[p] # Null
          /\ NoRule(item'[p].consumption_unit, item'[p].unit) )
        => /\ convertedAmount'[p] = req[p].amount
           /\ IF Lt(item'[p].current_balance, req[p].amount)
              THEN /\ pc'[p] = "done"
                   /\ result'[p].message.text = "Not enough balance"
              ELSE /\ pc'[p] = "update"
                   /\ newBalance'[p] = Sub(item'[p].current_balance, req[p].amount) ]_vars

\* 60 ml were requested from an item kept in kg: 60 was subtracted and the
\* call succeeded
C17_Witness ==
  \E p \in Procs :
    /\ pc[p] = "done"
    /\ result[p].success
    /\ item[p] # Null
    /\ item[p].consumption_unit = "ml"
    /\ item[p].unit = "kg"
    /\ item[p].current_balance = Int2Num(100)
    /\ convertedAmount[p] = Int2Num(60)
    /\ Stored("i1") = Int2Num(40)
    /\ \E k \in 1..Len(ledger) : ledger[k].user_id = p /\ ledger[k].item_id = "i1"

\* C18: a call that fell back to the unconverted amount because its item's
\* units have no conversion rule has written the 'Unsupported unit conversion'
\* warning.
C18_FallbackWarned ==
  \A p \in Procs :
    (item[p] # Null /\ NoRule(item[p].consumption_unit, item[p].unit))
    => warned[p]

\* C19: for two units A and B of one category, an amount converted from A to
\* B and the result converted from B to A is the amount again.
C19_RoundTrip ==
  (trip.step = 2 /\ SameCategory(trip.A, trip.B))
  => trip.back = trip.amount

\* 7 gal are 26.49787 l, and 26.49787 l are 7 gal
C19_Witness ==
  /\ trip.step = 2
  /\ trip.A = "gal"
  /\ trip.B = "l"
  /\ trip.amount = Int2Num(7)
  /\ trip.forth = Rat(2649787, 100000)
  /\ trip.back = Int2Num(7)

\* C20: the status of a row is critical when its balance does not exceed the
\* critical threshold, otherwise low when it does not exceed the low-stock
\* threshold, otherwise normal; with thresholds 250 and 500 the balances 249
\* and 250 are critical, 251, 499 and 500 are low, 501 is normal; and no row
\* is in both the low-stock and the critical-stock listing.
C20_StatusClassification ==
  listing.read
  => /\ \A i \in ItemIds :
          LET b  == items[i].current_balance
              ct == items[i].critical_threshold
              mt == items[i].min_threshold
          IN  /\ listing.status[i] \in {"critical", "low", "normal"}
              /\ listing.status[i] = "critical" <=> ~Lt(ct, b)
              /\ listing.status[i] = "low" <=> (Lt(ct, b) /\ ~Lt(mt, b))
              /\ listing.status[i] = "normal" <=> (Lt(ct, b) /\ Lt(mt, b))
     /\ listing.status["i1"] =
          ( CASE Stored("i1") \in {Int2Num(249), Int2Num(250)} -> "critical"
              [] Stored("i1") \in {Int2Num(251), Int2Num(499), Int2Num(500)} -> "low"
              [] Stored("i1") = Int2Num(501) -> "normal" )
     /\ listing.low \cap listing.critical = {}
     /\ \A i \in listing.low : listing.status[i] = "low"
     /\ \A i \in listing.critical : listing.status[i] = "critical"

\* balance 500 against thresholds 250 and 500 is listed as low stock, and
\* balance 250 of the other row as critical
C20_Witness ==
  /\ listing.read
  /\ Stored("i1") = Int2Num(500)
  /\ listing.status["i1"] = "low"
  /\ listing.low = {"i1"}
  /\ Stored("i2") = Int2Num(250)
  /\ items["i2"].critical_threshold = Int2Num(250)
  /\ listing.critical = {"i2"}

\* C21: a row inserted by a submission whose Current Balance field is empty
\* has current_balance equal to its original_amount.
C21_BalanceDefaultsToOriginal ==
  [][ ( /\ Len(newItems') = Len(newItems) + 1
        /\ addItemModal.formData.current_balance = "" )
      => newItems'[Len(newItems')].current_balance
           = newItems'[Len(newItems')].original_amount ]_vars

\* C22: createInventoryItem is called only for a form whose required fields
\* are all filled in and whose original amount is positive.
C22_InvalidFormNotPersisted ==
  [][ addItemModal'.creates # addItemModal.creates
      => /\ missingFields(addItemModal.formData) = {}
         /\ Lt(Zero, ParseFloat(addItemModal.formData.original_amount)) ]_vars

\* C23: a call's row is appended to the ledger only after the call's balance
\* update has returned its row, and the call's activity entry is written only
\* after its ledger row: every ledger append of a session is made from the
\* insert step with the updated item at hand, and every activity append from
\* the log step with the session's ledger row in place.
C23_WriteOrder ==
  [][ \A p \in Procs :
        /\ ( /\ Len(ledger') > Len(ledger)
             /\ ledger'[Len(ledger')].user_id = p )
           => /\ pc[p] = "insert"
              /\ updatedItem[p] # Null
              /\ activity' = activity
        /\ ( /\ Len(activity') > Len(activity)
             /\ activity'[Len(activity')].user_id = p )
           => /\ pc[p] = "log"
              /\ updatedItem[p] # Null
              /\ ledger' = ledger
              /\ \E k \in 1..Len(ledger) : ledger[k] = ConsumptionRecord(p) ]_vars

\* a call has written its balance, its ledger row and its activity entry
C23_Witness ==
  \E p \in Procs :
    /\ pc[p] = "done"
    /\ result[p].success
    /\ updatedItem[p] # Null
    /\ Len(ledger) = 1
    /\ ledger[1].user_id = p
    /\ Len(activity) = 1
    /\ activity[1].user_id = p

\* C24: a call returns success only from its last step, with the balance
\* update's row at hand, which it hands to the caller, and with its row in the
\* ledger; the step that takes the call past the insert appends exactly that
\* one row, and no other step of any call changes the ledger.
C24_SuccessMeansCommitted ==
  [][ /\ \A p \in Procs :
           /\ (result'[p].success /\ ~result[p].success)
              => /\ pc[p] = "log"
                 /\ updatedItem[p] # Null
                 /\ result'[p].updatedItem = updatedItem[p]
                 /\ \E k \in 1..Len(ledger) : ledger[k] = ConsumptionRecord(p)
           /\ (pc'[p] = "log" /\ pc[p] # "log")
              => /\ pc[p] = "insert"
                 /\ ledger' = Append(ledger, ConsumptionRecord(p))
      /\ ledger' # ledger
         => \E p \in Procs : pc[p] = "insert" /\ pc'[p] = "log" ]_vars

\* 60 of 100 were consumed: the result carries the row with balance 40 and
\* the ledger holds the one row of the call
C24_Witness ==
  \E p \in Procs :
    /\ pc[p] = "done"
    /\ result[p].success
    /\ result[p].updatedItem # Null
    /\ result[p].updatedItem.current_balance = Int2Num(40)
    /\ calls = 1
    /\ ledger = <<ConsumptionRecord(p)>>

\* C25: the balances a call puts into its activity entry, item.current_balance
\* as previous_balance and newBalance as new_balance, are the stored balance
\* of the item immediately before and immediately after the call's balance
\* write.
C25_LoggedBalancesAreStored ==
  [][ \A p \in Procs :
        (adjusts = 0 /\ pc[p] = "update" /\ pc'[p] = "insert")
        => /\ item[p].current_balance = Stored(req[p].itemId)
           /\ newBalance[p] = items'[req[p].itemId].current_balance ]_vars

Add(x, y) == Sub(x, Sub(Zero, y))

\* the sum of the amounts that the ledger rows of item i took from its
\* balance, from row k on
RECURSIVE SumConverted(_, _)
SumConverted(i, k) ==
  IF k > Len(ledger) THEN Zero
  ELSE LET rest == SumConverted(i, k + 1)
           r    == ledger[k]
       IN  IF r.item_id = i
           THEN Add(rest, ConvertAmount(r.amount, items[i].consumption_unit,
                                        items[i].unit))
           ELSE rest

\* C26: with no adjustment made and every call started so far returned with
\* success, each item's balance is its initial balance less the converted
\* amounts of those calls.
C26_NoLostUpdate ==
  ( /\ adjusts = 0
    /\ Quiescent
    /\ Len(ledger) = calls
    /\ \A p \in Procs : pc[p] = "done" => result[p].success )
  => \A i \in ItemIds :
       Stored(i) = Sub(InitItems[i].current_balance, SumConverted(i, 1))

\* C27: a compensating update that returns a row gives back what the call
\* took: the stored balance after it is the stored balance before it plus the
\* call's converted amount.
C27_CompensationUndoesOwnDecrement ==
  [][ \A p \in Procs :
        (pc[p] = "revert" /\ pc'[p] = "done" /\ compensation'[p] = "row")
        => Sub(items'[req[p].itemId].current_balance, Stored(req[p].itemId))
             = convertedAmount[p] ]_vars

\* C28: the balance write of a call never stores a balance above the one
\* stored before it, whatever amount the consumption form submitted.
C28_ConsumptionNeverRaisesBalance ==
  [][ \A p \in Procs :
        (pc[p] = "update" /\ pc'[p] = "insert")
        => Le(items'[req[p].itemId].current_balance, Stored(req[p].itemId)) ]_vars

\* C29: two different units of one category of the add-item form always have
\* a conversion rule, so that an amount converted between them is not the
\* amount entered.
C29_FormPairsHaveRule ==
  (trip.step >= 1 /\ trip.A # trip.B /\ SameCategory(trip.A, trip.B))
  => /\ ~NoRule(trip.A, trip.B)
     /\ trip.forth # trip.amount

\* C30: a step of recordConsumption changes nothing in the item store but the
\* current_balance of the item the stepping call was made for: all other
\* fields of that row and all other rows stay as they are.
C30_OnlyTargetBalanceChanges ==
  [][ adjusts' = adjusts
      => /\ DOMAIN items' = DOMAIN items
         /\ \A i \in ItemIds :
              /\ items'[i] = [items[i] EXCEPT !.current_balance = items'[i].current_balance]
              /\ items'[i] # items[i]
                 => \E p \in Procs : /\ req[p].itemId = i
                                     /\ pc[p] \in {"update", "revert"}
                                     /\ pc'[p] # pc[p] ]_vars

\* one call took 60 from i1; another took 4 from i2, failed to insert its row
\* and gave the 4 back: only the balance of i1 differs from the start
C30_Witness ==
  /\ adjusts = 0
  /\ Len(ledger) = 1
  /\ items = [InitItems EXCEPT !["i1"].current_balance = Int2Num(40)]
  /\ \E p \in Procs :
       /\ pc[p] = "done"
       /\ req[p].itemId = "i2"
       /\ updatedItem[p] # Null
       /\ updatedItem[p].current_balance = Int2Num(1)
       /\ compensation[p] = "row"

====
